---- MODULE Spec2Model ----
(***************************************************************************)
(* Forecast Query Engine: the read-only query gateway (db.py) and the      *)
(* pipeline orchestrator (app.py).                                         *)
(*                                                                         *)
(* SQL text is a sequence of one-character strings, so that the regular    *)
(* expressions of _validate_sql act on characters as they do in the code.  *)
(***************************************************************************)
EXTENDS Integers, Sequences, FiniteSets, TLC

(***************************************************************************)
(* Part 1.  db._validate_sql                                               *)
(***************************************************************************)

\* db.py:36-47
FORBIDDEN_KEYWORDS ==
    { <<"I","N","S","E","R","T">>,
      <<"U","P","D","A","T","E">>,
      <<"D","E","L","E","T","E">>,
      <<"D","R","O","P">>,
      <<"A","L","T","E","R">>,
      <<"C","R","E","A","T","E">>,
      <<"T","R","U","N","C","A","T","E">>,
      <<"G","R","A","N","T">>,
      <<"R","E","V","O","K","E">>,
      <<"R","E","P","L","A","C","E">>,
      <<"U","P","S","E","R","T">>,
      <<"M","E","R","G","E">>,
      <<"C","O","P","Y">>,
      <<"E","X","E","C","U","T","E">>,
      <<"E","X","E","C">>,
      <<"C","A","L","L">>,
      <<"S","E","T"," ","R","O","L","E">>,
      <<"S","E","T"," ","S","E","S","S","I","O","N"," ","A","U","T","H","O","R","I","Z","A","T","I","O","N">>,
      <<"R","E","S","E","T"," ","R","O","L","E">>,
      <<"B","E","G","I","N">>,
      <<"C","O","M","M","I","T">>,
      <<"R","O","L","L","B","A","C","K">>,
      <<"S","A","V","E","P","O","I","N","T">>,
      <<"L","O","C","K">>,
      <<"V","A","C","U","U","M">>,
      <<"A","N","A","L","Y","Z","E">>,
      <<"R","E","I","N","D","E","X">>,
      <<"C","L","U","S","T","E","R">>,
      <<"C","O","M","M","E","N","T">>,
      <<"S","E","C","U","R","I","T","Y">>,
      <<"R","E","A","S","S","I","G","N">>,
      <<"D","I","S","C","A","R","D">>,
      <<"D","O">>,
      <<"N","O","T","I","F","Y">>,
      <<"L","I","S","T","E","N">>,
      <<"U","N","L","I","S","T","E","N">>,
      <<"P","R","E","P","A","R","E">>,
      <<"D","E","A","L","L","O","C","A","T","E">> }

\* db.py:51-56
MAIN_TABLES ==
    { <<"W","E","A","T","H","E","R","_","F","O","R","E","C","A","S","T","_","E","N","S","E","M","B","L","E">>,
      <<"W","E","A","T","H","E","R","_","S","E","A","S","O","N","A","L","_","E","N","S","E","M","B","L","E">>,
      <<"E","N","E","R","G","Y","_","B","A","S","E","_","E","N","S","E","M","B","L","E">>,
      <<"E","N","E","R","G","Y","_","F","O","R","E","C","A","S","T","_","E","N","S","E","M","B","L","E">> }

LowerLetters ==
    <<"a","b","c","d","e","f","g","h","i","j","k","l","m","n","o","p","q","r","s","t","u","v","w","x","y","z">>
UpperLetters ==
    <<"A","B","C","D","E","F","G","H","I","J","K","L","M","N","O","P","Q","R","S","T","U","V","W","X","Y","Z">>

\* the character classes of Python's re: \s, \d, \w, and [A-Z_] of db.py:129
Whitespace == {" ", "\t", "\n", "\r"}
Digits == {"0","1","2","3","4","5","6","7","8","9"}
UpperSet == {UpperLetters[i] : i \in 1..26}
LowerSet == {LowerLetters[i] : i \in 1..26}
TokenChars == UpperSet \cup {"_"}
WordChars == UpperSet \cup LowerSet \cup Digits \cup {"_"}

MinOf(S) == CHOOSE x \in S : \A y \in S : x <= y
MaxOf(S) == CHOOSE x \in S : \A y \in S : y <= x

\* str.upper() on one character
ToUpper(c) ==
    IF c \in LowerSet
    THEN UpperLetters[CHOOSE i \in 1..26 : LowerLetters[i] = c]
    ELSE c

\* str.upper()
Upper(s) == [i \in 1..Len(s) |-> ToUpper(s[i])]

\* str.strip()
Strip(s) ==
    LET idx == {i \in 1..Len(s) : s[i] \notin Whitespace}
    IN  IF idx = {} THEN <<>> ELSE SubSeq(s, MinOf(idx), MaxOf(idx))

\* the literal lit occurs in s at position i
HasAt(s, i, lit) ==
    /\ i >= 1
    /\ i + Len(lit) - 1 <= Len(s)
    /\ \A k \in 1..Len(lit) : s[i + k - 1] = lit[k]

\* a test for the literal anywhere in s instead of at its start
StartsWith_anywhere(s, lit) == \E i \in 1..Len(s) : HasAt(s, i, lit)

\* str.startswith
StartsWith(s, lit) == HasAt(s, 1, lit)

\* `lit in s`
Contains(s, lit) == \E i \in 1..Len(s) : HasAt(s, i, lit)

\* the rest of s from its first newline on (what '.*?$' leaves, re.MULTILINE)
RECURSIVE FromEol(_)
FromEol(s) ==
    IF s = <<>> THEN <<>>
    ELSE IF Head(s) = "\n" THEN s
    ELSE FromEol(Tail(s))

\* re.sub(r'--.*?$', ' ', sql, flags=re.MULTILINE), db.py:120
RECURSIVE StripLineComments(_)
StripLineComments(s) ==
    IF s = <<>> THEN <<>>
    ELSE IF HasAt(s, 1, <<"-","-">>)
         THEN <<" ">> \o StripLineComments(FromEol(SubSeq(s, 3, Len(s))))
         ELSE <<Head(s)>> \o StripLineComments(Tail(s))

\* the position in s where the first '*/' ends, 0 when there is none
BlockEnd(s) ==
    LET ends == {i \in 1..Len(s) : HasAt(s, i, <<"*","/">>)}
    IN  IF ends = {} THEN 0 ELSE MinOf(ends) + 1

\* re.sub(r'/\*.*?\*/', ' ', cleaned, flags=re.DOTALL), db.py:121
RECURSIVE StripBlockComments(_)
StripBlockComments(s) ==
    IF s = <<>> THEN <<>>
    ELSE IF HasAt(s, 1, <<"/","*">>) /\ BlockEnd(SubSeq(s, 3, Len(s))) > 0
         THEN LET rest == SubSeq(s, 3, Len(s))
              IN  <<" ">> \o StripBlockComments(SubSeq(rest, BlockEnd(rest) + 1, Len(rest)))
         ELSE <<Head(s)>> \o StripBlockComments(Tail(s))

\* db.py:120-121
Cleaned(sql) == StripBlockComments(StripLineComments(sql))

\* db.py:122
CleanedUpper(sql) == Upper(Strip(Cleaned(sql)))

\* re.findall(r'[A-Z_]+', cleaned_upper), db.py:129: the maximal runs; cur is the
\* run being read
RECURSIVE TokenRuns(_, _)
TokenRuns(s, cur) ==
    IF s = <<>> THEN (IF cur = <<>> THEN {} ELSE {cur})
    ELSE IF Head(s) \in TokenChars THEN TokenRuns(Tail(s), Append(cur, Head(s)))
    ELSE (IF cur = <<>> THEN {} ELSE {cur}) \cup TokenRuns(Tail(s), <<>>)

Tokens(s) == TokenRuns(s, <<>>)

\* str.split(';'), db.py:135
RECURSIVE SplitSemi(_, _)
SplitSemi(s, cur) ==
    IF s = <<>> THEN <<cur>>
    ELSE IF Head(s) = ";" THEN <<cur>> \o SplitSemi(Tail(s), <<>>)
    ELSE SplitSemi(Tail(s), Append(cur, Head(s)))

IsNonEmpty(s) == s # <<>>

\* [s.strip() for s in cleaned.split(';') if s.strip()], db.py:135
Statements(cleaned) ==
    LET parts == SplitSemi(cleaned, <<>>)
    IN  SelectSeq([i \in 1..Len(parts) |-> Strip(parts[i])], IsNonEmpty)

\* re.search(lit \s{minWs,} (alt1|alt2|...), s)
SearchLitWsAlt(s, lit, minWs, alts) ==
    \E i \in 1..Len(s) :
        /\ HasAt(s, i, lit)
        /\ \E j \in (i + Len(lit) + minWs)..(Len(s) + 1) :
            /\ \A k \in (i + Len(lit))..(j - 1) : s[k] \in Whitespace
            /\ \E a \in alts : HasAt(s, j, a)

\* the patterns of db.py:140-149, each matched against cleaned_upper
InjectionPattern(s) ==
    \/ SearchLitWsAlt(s, <<"I","N","T","O">>, 1,
                      { <<"O","U","T","F","I","L","E">>, <<"D","U","M","P","F","I","L","E">> })
    \/ SearchLitWsAlt(s, <<"L","O","A","D","_","F","I","L","E">>, 0, { <<"(">> })
    \/ SearchLitWsAlt(s, <<"p","g","_","s","l","e","e","p">>, 0, { <<"(">> })
    \/ SearchLitWsAlt(s, <<"d","b","l","i","n","k">>, 0, { <<"(">> })
    \/ SearchLitWsAlt(s, <<"p","g","_","r","e","a","d","_","f","i","l","e">>, 0, { <<"(">> })
    \/ SearchLitWsAlt(s, <<"p","g","_","w","r","i","t","e","_","f","i","l","e">>, 0, { <<"(">> })
    \/ SearchLitWsAlt(s, <<"l","o","_","i","m","p","o","r","t">>, 0, { <<"(">> })
    \/ SearchLitWsAlt(s, <<"l","o","_","e","x","p","o","r","t">>, 0, { <<"(">> })

\* db.py:97-99
references_main_table(cleaned_upper) ==
    \E table \in MAIN_TABLES : Contains(cleaned_upper, table)

\* \b at position i of s (between s[i-1] and s[i])
WordBoundary(s, i) ==
    LET before == i > 1 /\ i - 1 <= Len(s) /\ s[i - 1] \in WordChars
        after  == i >= 1 /\ i <= Len(s) /\ s[i] \in WordChars
    IN  before # after

\* re.search(r'SELECT\s+\*', s), db.py:161
SearchSelectStar(s) ==
    SearchLitWsAlt(s, <<"S","E","L","E","C","T">>, 1, { <<"*">> })

\* re.search(r'\bWHERE\b', s), db.py:169
SearchWhere(s) ==
    \E i \in 1..Len(s) :
        /\ HasAt(s, i, <<"W","H","E","R","E">>)
        /\ WordBoundary(s, i)
        /\ WordBoundary(s, i + 5)

\* re.search(r'\bLIMIT\s+\d+', s), db.py:179
SearchLimit(s) ==
    \E i \in 1..Len(s) :
        /\ WordBoundary(s, i)
        /\ SearchLitWsAlt(SubSeq(s, i, Len(s)), <<"L","I","M","I","T">>, 1,
                          { <<d>> : d \in Digits })
        /\ HasAt(s, i, <<"L","I","M","I","T">>)

\* db.py:102-184: "ok" when _validate_sql returns, else the ValueError raised
validate_sql(sql) ==
    LET cleaned == Cleaned(sql)
        cleaned_upper == Upper(Strip(cleaned))
    IN  IF /\ ~StartsWith(cleaned_upper, <<"S","E","L","E","C","T">>)
           /\ ~StartsWith(cleaned_upper, <<"W","I","T","H">>)
        THEN "BLOCKED: Only SELECT / WITH queries are allowed"
        ELSE IF Tokens(cleaned_upper) \cap FORBIDDEN_KEYWORDS # {}
        THEN "BLOCKED: Forbidden keyword detected"
        ELSE IF Len(Statements(cleaned)) > 1
        THEN "BLOCKED: Multiple SQL statements are not allowed"
        ELSE IF InjectionPattern(cleaned_upper)
        THEN "BLOCKED: Potentially dangerous SQL pattern detected"
        ELSE IF ~references_main_table(cleaned_upper)
        THEN "ok"
        ELSE IF SearchSelectStar(cleaned_upper)
        THEN "BLOCKED: SELECT * is not permitted on forecast tables"
        ELSE IF ~SearchWhere(cleaned_upper)
        THEN "BLOCKED: Queries on forecast tables must include a WHERE clause"
        ELSE IF ~SearchLimit(cleaned_upper)
        THEN "BLOCKED: Queries on forecast tables must include a LIMIT clause"
        ELSE "ok"

(***************************************************************************)
(* Part 2.  The pipeline (app.query), the cancel and clear endpoints, and  *)
(* db.execute_query / db.cancel_query.                                     *)
(*                                                                         *)
(* Each request runs as its own task.  A step of a task is the code from   *)
(* one long-latency call (interpreter call, database round trip) to the    *)
(* next; steps of different tasks interleave.  This is the scheduling the  *)
(* cancellation checkpoints of query are written for: the flag is polled   *)
(* after each of these calls.                                              *)
(***************************************************************************)

\* bounds of the model
MaxLists == 2
\* init_pool(max_conn), scaled down
max_conn == 2
\* app.MAX_HISTORY_TURNS, scaled down
MAX_HISTORY_TURNS == 1

\* the request tasks
Reqs == {1, 2}
Conns == 1..max_conn
ListIds == 1..MaxLists
\* request identifiers a caller can supply (req.request_id, body["request_id"]).
\* Identifiers are interchangeable, so the first task's is fixed: "a"; the second
\* task's is the same one or another.
Ids == {"a", "b"}
RequestIds(r) == IF r = 1 THEN {"a"} ELSE Ids
Sessions == {"default"}
None == "None"
NoConn == 0
NoList == 0

\* the SQL the interpreter can produce, by name, and its text
SqlNames == {"SELECT_1", "DROP_T"}
SqlText(name) ==
    IF name = "SELECT_1" THEN <<"S","E","L","E","C","T"," ","1">>
    ELSE <<"D","R","O","P"," ","T","A","B","L","E"," ","t">>

\* _validate_sql on the SQL the interpreter can produce (db.py:199)
verdict_of == [n \in SqlNames |-> validate_sql(SqlText(n))]
\* what _validate_sql raises for that SQL
ValidationErrors == {verdict_of[n] : n \in SqlNames} \ {"ok"}
\* what llm.generate_sql / llm.synthesize_answer can raise (llm.py:252)
LlmErrors == {"Could not parse JSON from LLM response"}
\* what the database can raise while a statement runs
DbErrors == {"database error"}
PoolExhausted == "connection pool exhausted"
QueryCanceled == "canceling statement due to user request"
\* everything execute_query can raise to query
ExecErrors == ValidationErrors \cup DbErrors \cup {PoolExhausted, QueryCanceled}

VARIABLES
    pc,                  \* pc[r]: where request r's task is in app.query
    loc,                 \* loc[r]: the locals of request r's task
    resp,                \* resp[r]: the QueryResponse returned, None before
    calls,               \* calls[r]: the calls made by the current run of r
    sessions,            \* app._sessions: session id -> list object
    lists,               \* the list objects: list id -> sequence of turns
    cancelled_requests,  \* app._cancelled_requests
    active_queries,      \* db._active_queries: request id -> backend pid
    pool_used,           \* the pooled connections checked out
    conn_log,            \* conn_log[c]: the statements sent on c since its checkout
    interrupted,         \* backends a cancel signal reached while running a query
    nlists,              \* list objects created so far (_get_history, clear_session)
    cpc,                 \* where the cancel_request task is
    cloc,                \* the locals of the cancel_request task
    vsql,                \* the SQL text under validation
    vverdict,            \* what _validate_sql made of vsql
    thistory,            \* the list handed to _trim_history
    trimmed,             \* that list as _trim_history left it
    cur_rows,            \* the rows a query yields to its cursor
    fetched              \* what execute_query returned for them

pvars == <<pc, loc, resp, calls, sessions, lists, cancelled_requests,
           active_queries, pool_used, conn_log, interrupted, nlists, cpc, cloc>>
tvars == <<thistory, trimmed>>
fvars == <<cur_rows, fetched>>
vvars == <<vsql, vverdict, tvars, fvars>>
vars == <<pvars, vvars>>

Turn(role, content) == [role |-> role, content |-> content]

InitLoc ==
    [request_id |-> None, history |-> NoList, sql |-> None, first_sql |-> None,
     error_msg |-> None, exc |-> None, e2 |-> None, attempt |-> 0, conn |-> NoConn,
     query_result |-> None]

NoResp == [answer |-> <<>>, sql |-> None, data |-> None, error |-> None]
NoCalls == [generate_sql |-> 0, execute_query |-> 0, synthesize_answer |-> 0]

InitCloc ==
    [request_id |-> None, backend_pid |-> NoConn, result |-> FALSE, signal |-> "none",
     conn |-> NoConn]

PInit ==
    /\ pc = [r \in Reqs |-> "idle"]
    /\ loc = [r \in Reqs |-> InitLoc]
    /\ resp = [r \in Reqs |-> NoResp]
    /\ calls = [r \in Reqs |-> NoCalls]
    /\ sessions = [s \in Sessions |-> NoList]
    /\ lists = [l \in ListIds |-> <<>>]
    /\ cancelled_requests = {}
    /\ active_queries = [i \in Ids |-> NoConn]
    /\ pool_used = {}
    /\ conn_log = [c \in Conns |-> <<>>]
    /\ interrupted = {}
    /\ nlists = 0
    /\ cpc = "idle"
    /\ cloc = InitCloc

VInit ==
    /\ vsql = [text |-> <<>>, n |-> 0]
    /\ vverdict = None

NotTrimmed == [done |-> FALSE, history |-> <<>>]

TInit ==
    /\ thistory = <<>>
    /\ trimmed = NotTrimmed

NotFetched == [done |-> FALSE, limit |-> 0, rows |-> <<>>, row_count |-> 0, truncated |-> FALSE]

FInit ==
    /\ cur_rows = <<>>
    /\ fetched = NotFetched

Init == PInit /\ VInit /\ TInit /\ FInit

(***************************************************************************)
(* app.py: history and the exits of query                                  *)
(***************************************************************************)

\* a trim that evicts the newest entries
trim_history_keeps_oldest(history) ==
    IF Len(history) > MAX_HISTORY_TURNS * 2
    THEN SubSeq(history, 1, MAX_HISTORY_TURNS * 2)
    ELSE history

\* app.py:72-74
RECURSIVE trim_history(_)
trim_history(history) ==
    IF Len(history) > MAX_HISTORY_TURNS * 2
    THEN trim_history(Tail(history))
    ELSE history

\* app.py:77-78
is_cancelled(request_id) == request_id \in cancelled_requests

\* a finally clause that leaves the set alone
finally_keeps(cs, request_id) == cs

\* app.py:219-220, the finally clause: cs is the set as the handlers left it
finally_discard(cs, request_id) == cs \ {request_id}

\* app.py:208
interrupted_discard(cs, request_id) == cs \ {request_id}

\* the locals of a task that has returned: what identifies the run is kept, and
\* the exception of the retry execution (e2, app.py:178) when it raised
Returned(lc) == [InitLoc EXCEPT !.request_id = lc.request_id, !.e2 = lc.e2]

\* the list objects a session or a running task other than r refers to
Referenced(sess, r) ==
    {sess[s] : s \in Sessions}
    \cup {loc[q].history : q \in {q \in Reqs \ {r} : pc[q] \notin {"idle", "done"}}}

\* a list object nothing refers to any more is gone
Collect(ls, sess, r) ==
    [l \in ListIds |-> IF l \in Referenced(sess, r) THEN ls[l] ELSE <<>>]

\* a return statement that leaves the history as it is
Return_without_append(r, lc, ls, cs, answer, rsql, rdata, rerror) ==
    /\ lists' = Collect(ls, sessions, r)
    /\ resp' = [resp EXCEPT ![r] =
                    [answer |-> answer, sql |-> rsql, data |-> rdata, error |-> rerror]]
    /\ loc' = [loc EXCEPT ![r] = Returned(lc)]
    /\ pc' = [pc EXCEPT ![r] = "done"]
    /\ cancelled_requests' = finally_discard(cs, lc.request_id)
    /\ calls' = calls

\* a return statement of query (with the finally clause): lc are r's locals and
\* ls the list objects as the step leaves them, cs the cancellation set
Return(r, lc, ls, cs, answer, rsql, rdata, rerror) ==
    /\ lists' = Collect([ls EXCEPT ![lc.history] = Append(@, Turn("assistant", answer))],
                         sessions, r)
    /\ resp' = [resp EXCEPT ![r] =
                    [answer |-> answer, sql |-> rsql, data |-> rdata, error |-> rerror]]
    /\ loc' = [loc EXCEPT ![r] = Returned(lc)]
    /\ pc' = [pc EXCEPT ![r] = "done"]
    /\ cancelled_requests' = finally_discard(cs, lc.request_id)
    /\ calls' = calls

\* app.py:207-211: raise InterruptedError, caught
CancelledReturn(r, lc, ls) ==
    Return(r, lc, ls, interrupted_discard(cancelled_requests, lc.request_id),
           <<"Request was cancelled.">>, None, None, None)

\* an error answer whose response leaves the error field empty
ErrorReturn_without_text(r, lc, e) ==
    Return(r, [lc EXCEPT !.exc = e], lists, cancelled_requests,
           <<"An error occurred processing your question", e>>, None, None, None)

\* app.py:213-217: any other exception e, caught
ErrorReturn(r, lc, e) ==
    Return(r, [lc EXCEPT !.exc = e], lists, cancelled_requests,
           <<"An error occurred processing your question", e>>, None, None, e)

\* app.py:147-166: the first execute_query raised e
first_failure(r, lc, e) ==
    IF is_cancelled(lc.request_id)
    THEN CancelledReturn(r, [lc EXCEPT !.exc = e], lists)
    ELSE /\ lists' = [lists EXCEPT ![lc.history] =
                        @ \o << Turn("assistant", <<"sql_error", lc.sql, e>>),
                                Turn("user", <<"The SQL query failed with error", e>>) >>]
         /\ loc' = [loc EXCEPT ![r] = [lc EXCEPT !.exc = e, !.error_msg = e]]
         /\ pc' = [pc EXCEPT ![r] = "retrying"]
         /\ calls' = [calls EXCEPT ![r].generate_sql = @ + 1]
         /\ UNCHANGED <<resp, cancelled_requests>>

\* a parse failure that is handed to the retry lap
parse_failure_retries(r, lc, e) == first_failure(r, lc, e)

\* llm.py:252, app.py:213-217: _parse_json_response raises inside generate_sql
\* or synthesize_answer; only the top-level handler of query catches it
parse_failure(r, lc, e) == ErrorReturn(r, lc, e)

\* a second failure whose response still carries rows
second_failure_with_data(r, lc, e2) ==
    Return(r, [lc EXCEPT !.e2 = e2], lists, cancelled_requests,
           <<"I tried two queries but both failed. Last error", e2>>, lc.sql, lc.sql, e2)

\* a second failure that goes round the retry lap again
second_failure_retries(r, lc, e2) == first_failure(r, lc, e2)

\* app.py:178-183: the retry execute_query raised e2
second_failure(r, lc, e2) ==
    Return(r, [lc EXCEPT !.e2 = e2], lists, cancelled_requests,
           <<"I tried two queries but both failed. Last error", e2>>, lc.sql, None, e2)

\* a handler in which a validator rejection ends the turn outright
ExecRaise_rejection_terminal(r, lc, e) ==
    IF e \in ValidationErrors THEN ErrorReturn(r, lc, e)
    ELSE IF lc.attempt = 1 THEN first_failure(r, lc, e) ELSE second_failure(r, lc, e)

\* execute_query raised e to query (app.py:147 or app.py:178)
ExecRaise(r, lc, e) ==
    IF lc.attempt = 1 THEN first_failure(r, lc, e) ELSE second_failure(r, lc, e)

\* execute_query returned query_result; app.py:186-189
ExecReturn(r, lc, query_result) ==
    IF is_cancelled(lc.request_id)
    THEN CancelledReturn(r, lc, lists)
    ELSE /\ loc' = [loc EXCEPT ![r] = [lc EXCEPT !.query_result = query_result]]
         /\ pc' = [pc EXCEPT ![r] = "synthesizing"]
         /\ calls' = [calls EXCEPT ![r].synthesize_answer = @ + 1]
         /\ UNCHANGED <<lists, resp, cancelled_requests>>

(***************************************************************************)
(* app.query                                                               *)
(***************************************************************************)

\* what llm.generate_sql can return: needs_data, and sql ("" when absent)
LlmResponses ==
    { [needs_data |-> FALSE, sql |-> ""], [needs_data |-> TRUE, sql |-> ""] }
    \cup { [needs_data |-> TRUE, sql |-> n] : n \in SqlNames }

\* app.py:107-121: a request arrives; up to the first interpreter call
Begin(r) ==
    /\ pc[r] = "idle"
    /\ \E id \in RequestIds(r), s \in Sessions :
        LET fresh == sessions[s] = NoList                       \* app.py:66-69
            l == IF fresh THEN nlists + 1 ELSE sessions[s]
            h == trim_history(Append(lists[l], Turn("user", <<"question">>)))
            ls == [lists EXCEPT ![l] = h]
            lc == [InitLoc EXCEPT !.request_id = id, !.history = l]
        IN  /\ sessions' = [sessions EXCEPT ![s] = l]
            /\ nlists' = IF fresh THEN nlists + 1 ELSE nlists
            /\ IF is_cancelled(id)                              \* app.py:117
               THEN /\ lists' = [ls EXCEPT ![l] =
                                    Append(@, Turn("assistant", <<"Request was cancelled.">>))]
                    /\ resp' = [resp EXCEPT ![r] =
                                    [NoResp EXCEPT !.answer = <<"Request was cancelled.">>]]
                    /\ loc' = [loc EXCEPT ![r] = Returned(lc)]
                    /\ pc' = [pc EXCEPT ![r] = "done"]
                    /\ cancelled_requests' =
                          finally_discard(interrupted_discard(cancelled_requests, id), id)
                    /\ calls' = [calls EXCEPT ![r] = NoCalls]
               ELSE /\ lists' = ls
                    /\ resp' = [resp EXCEPT ![r] = NoResp]
                    /\ loc' = [loc EXCEPT ![r] = lc]
                    /\ pc' = [pc EXCEPT ![r] = "interpreting"]
                    /\ calls' = [calls EXCEPT ![r] = [NoCalls EXCEPT !.generate_sql = 1]]
                    /\ UNCHANGED cancelled_requests
    /\ UNCHANGED <<active_queries, pool_used, conn_log, interrupted, cpc, cloc, vvars>>

\* app.py:121-146: generate_sql returns or raises; up to the call of execute_query
Interpret(r) ==
    /\ pc[r] = "interpreting"
    /\ \/ \E e \in LlmErrors : parse_failure(r, loc[r], e)
       \/ \E llm_response \in LlmResponses :
            IF is_cancelled(loc[r].request_id)                  \* app.py:123
            THEN CancelledReturn(r, loc[r], lists)
            ELSE IF ~llm_response.needs_data                    \* app.py:126-129
            THEN Return(r, loc[r], lists, cancelled_requests,
                        <<"direct answer">>, None, None, None)
            ELSE IF llm_response.sql = ""                       \* app.py:134-137
            THEN Return(r, loc[r], lists, cancelled_requests,
                        <<"I couldn't generate a query for that question.">>,
                        None, None, None)
            ELSE /\ loc' = [loc EXCEPT ![r].sql = llm_response.sql,   \* app.py:142-146
                                       ![r].first_sql = llm_response.sql,
                                       ![r].attempt = 1]
                 /\ pc' = [pc EXCEPT ![r] = "execute_query"]
                 /\ calls' = [calls EXCEPT ![r].execute_query = @ + 1]
                 /\ UNCHANGED <<lists, resp, cancelled_requests>>
    /\ UNCHANGED <<sessions, nlists, active_queries, pool_used, conn_log,
                   interrupted, cpc, cloc, vvars>>

\* app.py:166-177: the retry's generate_sql returns or raises
Retry(r) ==
    /\ pc[r] = "retrying"
    /\ \/ \E e \in LlmErrors : parse_failure(r, loc[r], e)
       \/ \E sql \in SqlNames \cup {""} :
            IF sql = ""                                         \* app.py:170-173
            THEN Return(r, [loc[r] EXCEPT !.sql = sql], lists, cancelled_requests,
                        <<"I tried to query the database but encountered an error",
                          loc[r].error_msg>>,
                        loc[r].first_sql, None, loc[r].error_msg)
            ELSE /\ loc' = [loc EXCEPT ![r].sql = sql, ![r].attempt = 2]   \* app.py:177
                 /\ pc' = [pc EXCEPT ![r] = "execute_query"]
                 /\ calls' = [calls EXCEPT ![r].execute_query = @ + 1]
                 /\ UNCHANGED <<lists, resp, cancelled_requests>>
    /\ UNCHANGED <<sessions, nlists, active_queries, pool_used, conn_log,
                   interrupted, cpc, cloc, vvars>>

\* a success response that reports the SQL of the first attempt
response_sql_first(lc) == lc.first_sql

\* app.py:198: sql=sql, the SQL of the execution that succeeded
response_sql(lc) == lc.sql

\* app.py:189-205: synthesize_answer returns or raises
Synthesize(r) ==
    /\ pc[r] = "synthesizing"
    /\ \/ \E e \in LlmErrors : parse_failure(r, loc[r], e)
       \/ Return(r, loc[r], lists, cancelled_requests, <<"synthesized answer">>,
                 response_sql(loc[r]), loc[r].query_result, None)
    /\ UNCHANGED <<sessions, nlists, active_queries, pool_used, conn_log,
                   interrupted, cpc, cloc, vvars>>

\* app.py:246-250
clear_session(s) ==
    /\ sessions[s] # NoList
    /\ nlists < MaxLists
    /\ sessions' = [sessions EXCEPT ![s] = nlists + 1]
    /\ nlists' = nlists + 1
    /\ lists' = Collect(lists, sessions', 0)
    /\ UNCHANGED <<pc, loc, resp, calls, cancelled_requests, active_queries,
                   pool_used, conn_log, interrupted, cpc, cloc, vvars>>

(***************************************************************************)
(* db.execute_query, as called by request r                                *)
(***************************************************************************)

\* db.py:90: connection c is checked out
getconn(used, c) == used \cup {c}

\* a context manager that does not give the connection back
putconn_leaks(used, c) == used

\* db.py:87-94, the finally clause: the connection goes back to the pool
putconn(used, c) == used \ {c}

\* a finally clause without the pop
unregister_keeps(active, request_id) == active

\* db.py:241-243, the finally clause
unregister(active, request_id) == [active EXCEPT ![request_id] = NoConn]

\* db.py:211-212
register(active, request_id, backend_pid) == [active EXCEPT ![request_id] = backend_pid]

\* execute_query without the call of _validate_sql
Validate_unchecked(r) ==
    /\ pc[r] = "execute_query"
    /\ IF pool_used = Conns
       THEN ExecRaise(r, loc[r], PoolExhausted) /\ UNCHANGED pool_used
       ELSE \E c \in Conns \ pool_used :
            /\ pool_used' = getconn(pool_used, c)
            /\ loc' = [loc EXCEPT ![r].conn = c]
            /\ pc' = [pc EXCEPT ![r] = "setup"]
            /\ UNCHANGED <<lists, resp, cancelled_requests, calls>>
    /\ UNCHANGED <<sessions, nlists, active_queries, conn_log,
                   interrupted, cpc, cloc, vvars>>

\* db.py:199-201, db.py:90: the validator, then a free connection or the pool's
\* error when none is left
Validate(r) ==
    /\ pc[r] = "execute_query"
    /\ LET verdict == verdict_of[loc[r].sql]
       IN  IF verdict # "ok"
           THEN ExecRaise(r, loc[r], verdict) /\ UNCHANGED pool_used
           ELSE IF pool_used = Conns
           THEN ExecRaise(r, loc[r], PoolExhausted) /\ UNCHANGED pool_used
           ELSE \E c \in Conns \ pool_used :
                /\ pool_used' = getconn(pool_used, c)
                /\ loc' = [loc EXCEPT ![r].conn = c]
                /\ pc' = [pc EXCEPT ![r] = "setup"]
                /\ UNCHANGED <<lists, resp, cancelled_requests, calls>>
    /\ UNCHANGED <<sessions, nlists, active_queries, conn_log,
                   interrupted, cpc, cloc, vvars>>

\* statements sent in the order of a log in which the backend pid is asked first
session_statements_unset ==
    <<"SELECT pg_backend_pid()">>

\* db.py:205-210: the statements execute_query sends before the caller's SQL
session_statements ==
    <<"SET default_transaction_read_only = ON",
      "SET LOCAL statement_timeout",
      "SELECT pg_backend_pid()">>

\* db.py:202-212: the session settings, the backend pid, the registration
Setup(r) ==
    /\ pc[r] = "setup"
    /\ LET c == loc[r].conn
       IN  \/ /\ conn_log' = [conn_log EXCEPT ![c] = session_statements]
              /\ active_queries' = register(active_queries, loc[r].request_id, c)
              /\ pc' = [pc EXCEPT ![r] = "running"]
              /\ UNCHANGED <<loc, lists, resp, cancelled_requests, calls, pool_used>>
           \/ \E e \in DbErrors :
              /\ pool_used' = putconn(pool_used, c)
              /\ conn_log' = [conn_log EXCEPT ![c] = <<>>]
              /\ ExecRaise(r, [loc[r] EXCEPT !.conn = NoConn], e)
              /\ UNCHANGED active_queries
    /\ UNCHANGED <<sessions, nlists, interrupted, cpc, cloc, vvars>>

\* db.py:214-243: the query runs, returns rows or raises; the entry is removed
\* and the connection returned
RunQuery(r) ==
    /\ pc[r] = "running"
    /\ LET c == loc[r].conn
           lc == [loc[r] EXCEPT !.conn = NoConn]
       IN  /\ active_queries' = unregister(active_queries, loc[r].request_id)
           /\ pool_used' = putconn(pool_used, c)
           /\ conn_log' = [conn_log EXCEPT ![c] = <<>>]
           /\ interrupted' = interrupted \ {c}
           /\ \/ ExecReturn(r, lc, loc[r].sql)
              \/ \E e \in DbErrors \cup (IF c \in interrupted THEN {QueryCanceled} ELSE {}) :
                    ExecRaise(r, lc, e)
    /\ UNCHANGED <<sessions, nlists, cpc, cloc, vvars>>

(***************************************************************************)
(* app.cancel_request and db.cancel_query                                  *)
(***************************************************************************)

\* app.py:228-236, db.py:251-253: the flag is set, cancel_query takes the entry
cancel_request(request_id) ==
    /\ cpc = "idle"
    /\ LET backend_pid == active_queries[request_id]
       IN  /\ cancelled_requests' = cancelled_requests \cup {request_id}
           /\ active_queries' = [active_queries EXCEPT ![request_id] = NoConn]
           /\ IF backend_pid = NoConn
              THEN /\ cloc' = [InitCloc EXCEPT !.result = FALSE]
                   /\ cpc' = "idle"
              ELSE /\ cloc' = [request_id |-> request_id, backend_pid |-> backend_pid,
                               result |-> FALSE, signal |-> "none", conn |-> NoConn]
                   /\ cpc' = "signal"
    /\ UNCHANGED <<pc, loc, resp, calls, sessions, lists, pool_used,
                   conn_log, interrupted, nlists, vvars>>

\* cancel_query reporting success whatever became of the signal
cancel_result_always(signal) == TRUE

\* db.py:258-264: the value of pg_cancel_backend is returned, an exception gives False
cancel_result(signal) == signal = "accepted"

\* db.py:255-256, db.py:90: cancel_query checks a connection out of the pool;
\* the pool's error when none is left is caught (db.py:262-264)
cancel_query_getconn ==
    /\ cpc = "signal"
    /\ IF pool_used = Conns
       THEN /\ cloc' = [InitCloc EXCEPT !.result = cancel_result("failed"),
                                        !.signal = "failed"]
            /\ cpc' = "idle"
            /\ UNCHANGED pool_used
       ELSE \E c \in Conns \ pool_used :
            /\ pool_used' = getconn(pool_used, c)
            /\ cloc' = [cloc EXCEPT !.conn = c]
            /\ cpc' = "sending"
    /\ UNCHANGED <<pc, loc, resp, calls, sessions, lists, cancelled_requests,
                   active_queries, conn_log, interrupted, nlists, vvars>>

\* db.py:257-264, db.py:93-94: pg_cancel_backend on that connection: the backend
\* accepts the signal or refuses it, or the statement raises; the connection
\* goes back to the pool
cancel_query_signal ==
    /\ cpc = "sending"
    /\ \E signal \in {"accepted", "refused", "failed"} :
          /\ interrupted' =
                IF /\ signal = "accepted"
                   /\ \E r \in Reqs : pc[r] = "running" /\ loc[r].conn = cloc.backend_pid
                THEN interrupted \cup {cloc.backend_pid}
                ELSE interrupted
          /\ cloc' = [InitCloc EXCEPT !.result = cancel_result(signal), !.signal = signal]
    /\ pool_used' = putconn(pool_used, cloc.conn)
    /\ cpc' = "idle"
    /\ UNCHANGED <<pc, loc, resp, calls, sessions, lists, cancelled_requests,
                   active_queries, conn_log, nlists, vvars>>

Next ==
    \/ \E r \in Reqs : Begin(r)
    \/ \E r \in Reqs : Interpret(r)
    \/ \E r \in Reqs : Retry(r)
    \/ \E r \in Reqs : Synthesize(r)
    \/ \E r \in Reqs : Validate(r)
    \/ \E r \in Reqs : Setup(r)
    \/ \E r \in Reqs : RunQuery(r)
    \/ \E s \in Sessions : clear_session(s)
    \/ \E request_id \in Ids : cancel_request(request_id)
    \/ cancel_query_getconn
    \/ cancel_query_signal

Spec == Init /\ [][Next]_vars

(***************************************************************************)
(* The validator on its own: an SQL text is put together from fragments    *)
(* and handed to _validate_sql.                                            *)
(***************************************************************************)

MaxFrags == 5

Fragments ==
    { <<"S","E","L","E","C","T"," ">>,
      <<"1">>,
      <<";">>,
      <<"d","r","o","p">>,
      <<"x">>,
      <<"'","-","-","'">>,
      <<"/","*">>,
      <<"*","/">>,
      <<"\n">> }

\* the text grows by one fragment
ComposeSql ==
    /\ vverdict = None
    /\ vsql.n < MaxFrags
    /\ \E f \in Fragments : vsql' = [text |-> vsql.text \o f, n |-> vsql.n + 1]
    /\ UNCHANGED <<vverdict, pvars, tvars, fvars>>

\* db.py:199: _validate_sql(sql) returns ("ok") or raises
ValidateSql ==
    /\ vverdict = None
    /\ vverdict' = validate_sql(vsql.text)
    /\ UNCHANGED <<vsql, pvars, tvars, fvars>>

VNext == ComposeSql \/ ValidateSql

SpecValidate == Init /\ [][VNext]_vars

(***************************************************************************)
(* The scope checks of the validator: texts put together from the parts of *)
(* a query on a forecast table.                                            *)
(***************************************************************************)

MaxScopeFrags == 5
MaxScopeLen == 50

ScopeFragments ==
    { <<"S","E","L","E","C","T">>,
      <<" ">>,
      <<"*">>,
      <<" ","x">>,
      <<" ","F","R","O","M"," ","e","n","e","r","g","y","_","b","a","s","e","_",
        "e","n","s","e","m","b","l","e">>,
      <<" ","W","H","E","R","E"," ","x">>,
      <<" ","L","I","M","I","T"," ","1">> }

\* the text grows by one part
ComposeScopeSql ==
    /\ vverdict = None
    /\ vsql.n < MaxScopeFrags
    /\ \E f \in ScopeFragments :
          /\ Len(vsql.text) + Len(f) <= MaxScopeLen
          /\ vsql' = [text |-> vsql.text \o f, n |-> vsql.n + 1]
    /\ UNCHANGED <<vverdict, pvars, tvars, fvars>>

SNext == ComposeScopeSql \/ ValidateSql

SpecScope == Init /\ [][SNext]_vars

(***************************************************************************)
(* _trim_history on its own: a history is built turn by turn, then trimmed *)
(***************************************************************************)

MaxHistoryLen == 5

Turns ==
    { Turn("user", <<"question">>),
      Turn("assistant", <<"synthesized answer">>),
      Turn("assistant", <<"Request was cancelled.">>) }

\* app.py:112: history.append
AppendTurn ==
    /\ ~ trimmed.done
    /\ Len(thistory) < MaxHistoryLen
    /\ \E t \in Turns : thistory' = Append(thistory, t)
    /\ UNCHANGED <<trimmed, vsql, vverdict, pvars, fvars>>

\* app.py:113: _trim_history(history)
TrimHistory ==
    /\ ~ trimmed.done
    /\ trimmed' = [done |-> TRUE, history |-> trim_history(thistory)]
    /\ UNCHANGED <<thistory, vsql, vverdict, pvars, fvars>>

TNext == AppendTurn \/ TrimHistory

SpecTrim == Init /\ [][TNext]_vars

(***************************************************************************)
(* The rows of execute_query on their own: a table is filled row by row,   *)
(* then a query with some LIMIT is executed on it and its rows fetched     *)
(***************************************************************************)

MAX_QUERY_ROWS == 2
MaxTableRows == 5

\* the values of a one-column table: a date, NULL, a number
Values == {"date(2024-01-01)", "None", "42"}

\* the table gets one more row
InsertRow ==
    /\ ~ fetched.done
    /\ Len(cur_rows) < MaxTableRows
    /\ \E val \in Values : cur_rows' = Append(cur_rows, <<val>>)
    /\ UNCHANGED <<fetched, vsql, vverdict, pvars, tvars>>

\* db.py:215: what the cursor holds after cur.execute of a query with that LIMIT
yielded(table, limit) ==
    SubSeq(table, 1, IF limit < Len(table) THEN limit ELSE Len(table))

\* db.py:217: cur.fetchmany(size)
fetchmany(cur, size) ==
    SubSeq(cur, 1, IF size < Len(cur) THEN size ELSE Len(cur))

\* db.py:226-231: a value with isoformat is replaced by its ISO text
serialized_val(val) == IF val = "date(2024-01-01)" THEN "2024-01-01" ELSE val

\* db.py:223-232
serialized_rows(rows) ==
    [i \in 1..Len(rows) |-> [j \in 1..Len(rows[i]) |-> serialized_val(rows[i][j])]]

\* a truncation that keeps the spare row
truncate_keeps_spare(rows) == rows

\* db.py:219-221
truncate(rows) ==
    IF Len(rows) > MAX_QUERY_ROWS THEN SubSeq(rows, 1, MAX_QUERY_ROWS) ELSE rows

\* db.py:215-240: the result execute_query returns
query_result(cur) ==
    LET rows == fetchmany(cur, MAX_QUERY_ROWS + 1)
        truncated == Len(rows) > MAX_QUERY_ROWS
        out == serialized_rows(truncate(rows))
    IN  [rows |-> out, row_count |-> Len(out), truncated |-> truncated]

\* db.py:215-240: a query with some LIMIT is executed and its result returned
FetchRows ==
    /\ ~ fetched.done
    /\ \E limit \in 0..MaxTableRows :
          LET result == query_result(yielded(cur_rows, limit))
          IN  fetched' = [done |-> TRUE, limit |-> limit, rows |-> result.rows,
                          row_count |-> result.row_count, truncated |-> result.truncated]
    /\ UNCHANGED <<cur_rows, vsql, vverdict, pvars, tvars>>

FNext == InsertRow \/ FetchRows

SpecFetch == Init /\ [][FNext]_vars

(***************************************************************************)
(* The handlers as the event loop runs them: query, cancel_request and     *)
(* clear_session are coroutines of one loop, and query calls the           *)
(* interpreter and the database synchronously (no await between app.py:107 *)
(* and its return), so a handler starts only when no other one is running. *)
(* cancel_query then never finds an entry, and its signal step is left out.*)
(***************************************************************************)

\* no handler holds the event loop
LoopFree == cpc = "idle" /\ \A r \in Reqs : pc[r] \in {"idle", "done"}

\* app.py:107: the loop starts query for request r
LoopBegin(r) == LoopFree /\ Begin(r)

\* app.py:227-239: the loop runs cancel_request
LoopCancel(request_id) == LoopFree /\ cancel_request(request_id)

\* app.py:246-250: the loop runs clear_session
LoopClear(s) == LoopFree /\ clear_session(s)

LoopNext ==
    \/ \E r \in Reqs :
          \/ LoopBegin(r)
          \/ Interpret(r)
          \/ Retry(r)
          \/ Synthesize(r)
          \/ Validate(r)
          \/ Setup(r)
          \/ RunQuery(r)
    \/ \E s \in Sessions : LoopClear(s)
    \/ \E request_id \in Ids : LoopCancel(request_id)

SpecLoop == Init /\ [][LoopNext]_vars

(***************************************************************************)
(* The pipeline with calls that end: every interpreter call and every      *)
(* database call of a running request eventually returns or raises, so a   *)
(* request that can take its next step eventually takes it. Arrivals,      *)
(* cancels and clears are up to the callers and carry no fairness.         *)
(***************************************************************************)

\* the next step of request r's pipeline once it has started
PipelineStep(r) ==
    \/ Interpret(r)
    \/ Retry(r)
    \/ Synthesize(r)
    \/ Validate(r)
    \/ Setup(r)
    \/ RunQuery(r)

SpecLive == Init /\ [][Next]_vars /\ \A r \in Reqs : WF_vars(PipelineStep(r))

(***************************************************************************)
(* Properties of the pipeline and the registry                             *)
(***************************************************************************)

\* the positions of a task inside db.execute_query and inside an interpreter call
ExecPcs == {"execute_query", "setup", "running"}
LlmPcs == {"interpreting", "retrying", "synthesizing"}
CancelledAnswer == <<"Request was cancelled.">>

\* C1: the registry holds an entry for a request identifier only while an
\* execute_query call for that identifier is between its registration and its
\* return, and the entry is that call's backend; once execute_query has returned
\* or raised, its entry is gone.
C1_RegistryOnlyWhileExecuting ==
    \A id \in Ids :
        active_queries[id] # NoConn =>
            \E r \in Reqs : /\ pc[r] = "running"
                            /\ loc[r].request_id = id
                            /\ loc[r].conn = active_queries[id]

\* an execution has returned and left no entry, while another one is registered
C1_Witness ==
    \E r, q \in Reqs :
        /\ pc[r] = "synthesizing"
        /\ active_queries[loc[r].request_id] = NoConn
        /\ pc[q] = "running"
        /\ active_queries[loc[q].request_id] = loc[q].conn

FailureDetected(r) ==
    \/ /\ pc[r] \in LlmPcs
       /\ \E e \in LlmErrors : ErrorReturn(r, loc[r], e)
    \/ /\ pc[r] \in ExecPcs
       /\ \E e \in ExecErrors : ExecRaise(r, [loc[r] EXCEPT !.conn = NoConn], e)

C5_FlagClearedOnExit ==
    [][\A r \in Reqs :
          (pc[r] # "done" /\ pc'[r] = "done")
          => loc'[r].request_id \notin cancelled_requests']_vars

\* a run whose flag was set has ended, cancelled, and the flag is gone
C5_Witness ==
    \E r \in Reqs :
        /\ pc[r] = "done"
        /\ resp[r].answer = CancelledAnswer
        /\ calls[r].generate_sql >= 1
        /\ loc[r].request_id \notin cancelled_requests

\* C6: in one pipeline run execute_query is called at most twice and
\* generate_sql at most twice; a second execution failure ends the turn with an
\* error answer that carries the second error text, and no interpreter or
\* database call follows.
C6_RetryBounded ==
    [][\A r \in Reqs :
          /\ calls'[r].execute_query <= 2
          /\ calls'[r].generate_sql <= 2
          /\ (/\ pc[r] \in ExecPcs
              /\ loc[r].attempt = 2
              /\ pc'[r] \notin ExecPcs \cup {"synthesizing"}
              /\ resp'[r].answer # CancelledAnswer)
             => /\ pc'[r] = "done"
                /\ loc'[r].e2 \in ExecErrors
                /\ resp'[r].answer =
                      <<"I tried two queries but both failed. Last error", loc'[r].e2>>
                /\ resp'[r].error = loc'[r].e2
                /\ calls'[r] = calls[r]
          /\ pc[r] = "done" => (pc'[r] = "done" /\ calls'[r] = calls[r])]_vars

\* a run has ended after two failed executions, the first one rejected by the
\* validator and the second one failed at the database
C6_Witness ==
    \E r \in Reqs :
        /\ pc[r] = "done"
        /\ calls[r].execute_query = 2
        /\ calls[r].generate_sql = 2
        /\ loc[r].e2 \in DbErrors
        /\ resp[r].error = loc[r].e2

\* the retry lap is entered from request r's failed first attempt with error e:
\* the failed SQL and the error, then the corrective prompt, are appended to the
\* history and the interpreter is invoked again
RetryLapEntered(r, e) ==
    /\ pc'[r] = "retrying"
    /\ lists'[loc[r].history] =
          lists[loc[r].history]
             \o << Turn("assistant", <<"sql_error", loc[r].sql, e>>),
                   Turn("user", <<"The SQL query failed with error", e>>) >>
    /\ loc'[r].history = loc[r].history
    /\ calls'[r].generate_sql = calls[r].generate_sql + 1
    /\ calls'[r].execute_query = calls[r].execute_query

\* the first attempt of r fails in this step
FirstAttemptFails(r) ==
    /\ pc[r] \in ExecPcs
    /\ loc[r].attempt = 1
    /\ pc'[r] \notin ExecPcs \cup {"synthesizing"}

\* C7 (as amended): a first-attempt validator rejection and a first-attempt
\* database error are handled by the same steps: provided the request is not
\* cancelled, the failed SQL with the error text and then the corrective prompt
\* are appended to the history and the interpreter is invoked once more; when
\* that retry interpretation returns SQL, execution is attempted again; when it
\* returns no SQL or fails, the turn ends with an error answer and without a
\* second execution.
C7_SameRetryLap ==
    [][\A r \in Reqs :
          /\ (/\ pc[r] = "execute_query"
              /\ loc[r].attempt = 1
              /\ pc'[r] # pc[r]
              /\ verdict_of[loc[r].sql] # "ok"
              /\ ~is_cancelled(loc[r].request_id))
             => RetryLapEntered(r, verdict_of[loc[r].sql])
          /\ (FirstAttemptFails(r) /\ ~is_cancelled(loc[r].request_id))
             => \E e \in ExecErrors : RetryLapEntered(r, e)
          /\ (pc[r] = "retrying" /\ pc'[r] # pc[r])
             => \/ /\ pc'[r] = "execute_query"
                   /\ loc'[r].attempt = 2
                   /\ calls'[r].execute_query = calls[r].execute_query + 1
                   /\ calls'[r].generate_sql = calls[r].generate_sql
                \/ /\ pc'[r] = "done"
                   /\ resp'[r].error # None
                   /\ calls'[r] = calls[r]]_vars

\* two runs are in the retry lap, one after a validator rejection and one after
\* a database error
C7_Witness ==
    \E r, q \in Reqs :
        /\ pc[r] = "retrying" /\ loc[r].error_msg \in ValidationErrors
        /\ pc[q] = "retrying" /\ loc[q].error_msg \in DbErrors

\* C7 (as stated): once the retry interpretation has returned, execution is
\* attempted again.
C7_RetryAlwaysExecutesAgain ==
    [][\A r \in Reqs :
          (/\ pc[r] = "retrying"
           /\ pc'[r] # pc[r]
           /\ ~is_cancelled(loc[r].request_id)
           /\ ~ \E e \in LlmErrors : ErrorReturn(r, loc[r], e))
          => pc'[r] = "execute_query"]_vars

\* C8: SQL rejected by the validator is never executed: when _validate_sql
\* rejects, execute_query checks out no pooled connection, sends nothing to the
\* database and adds no entry to the registry; only accepted SQL gets further.
C8_RejectedNeverExecuted ==
    [][\A r \in Reqs :
          /\ (/\ pc[r] = "execute_query"
              /\ pc'[r] # pc[r]
              /\ verdict_of[loc[r].sql] # "ok")
             => /\ pc'[r] \in {"retrying", "done"}
                /\ pool_used' = pool_used
                /\ conn_log' = conn_log
                /\ active_queries' = active_queries
          /\ (pc'[r] # pc[r] /\ pc'[r] \in {"setup", "running"})
             => verdict_of[loc'[r].sql] = "ok"]_vars

\* execute_query has raised the validator's rejection while the pool is whole,
\* nothing was sent and the registry is empty
C8_Witness ==
    \E r \in Reqs :
        /\ pc[r] = "retrying"
        /\ loc[r].error_msg \in ValidationErrors
        /\ calls[r].execute_query = 1
        /\ pool_used = {}
        /\ \A c \in Conns : conn_log[c] = <<>>
        /\ \A id \in Ids : active_queries[id] = NoConn

(***************************************************************************)
(* Properties of the validator.  What a text holds is read as the database *)
(* reads it: '--' starts a comment that runs to the end of the line, block *)
(* comments nest, and neither starts inside a string literal '...' (where  *)
(* '' is a quote).                                                         *)
(***************************************************************************)

\* the text s from position i on as the database lexes it, character by
\* character: a character of a comment reads as a blank, a character of a string
\* literal as a quote; mode is "code", "line", "block" or "string", depth the
\* nesting of the block comment
RECURSIVE DbLex(_, _, _, _)
DbLex(s, i, mode, depth) ==
    IF i > Len(s) THEN <<>>
    ELSE IF mode = "code"
    THEN IF HasAt(s, i, <<"-","-">>) THEN <<" ", " ">> \o DbLex(s, i + 2, "line", 0)
         ELSE IF HasAt(s, i, <<"/","*">>) THEN <<" ", " ">> \o DbLex(s, i + 2, "block", 1)
         ELSE IF s[i] = "'" THEN <<"'">> \o DbLex(s, i + 1, "string", 0)
         ELSE <<s[i]>> \o DbLex(s, i + 1, "code", 0)
    ELSE IF mode = "line"
    THEN IF s[i] \in {"\n", "\r"} THEN <<s[i]>> \o DbLex(s, i + 1, "code", 0)
         ELSE <<" ">> \o DbLex(s, i + 1, "line", 0)
    ELSE IF mode = "block"
    THEN IF HasAt(s, i, <<"/","*">>) THEN <<" ", " ">> \o DbLex(s, i + 2, "block", depth + 1)
         ELSE IF HasAt(s, i, <<"*","/">>)
         THEN <<" ", " ">> \o DbLex(s, i + 2, IF depth = 1 THEN "code" ELSE "block", depth - 1)
         ELSE <<" ">> \o DbLex(s, i + 1, "block", depth)
    ELSE IF HasAt(s, i, <<"'","'">>) THEN <<"'", "'">> \o DbLex(s, i + 2, "string", 0)
         ELSE IF s[i] = "'" THEN <<"'">> \o DbLex(s, i + 1, "code", 0)
         ELSE <<"'">> \o DbLex(s, i + 1, "string", 0)

DbVisible(sql) == DbLex(sql, 1, "code", 0)

\* the words of s: the maximal runs of letters, digits and '_'
RECURSIVE WordRuns(_, _)
WordRuns(s, cur) ==
    IF s = <<>> THEN (IF cur = <<>> THEN {} ELSE {cur})
    ELSE IF Head(s) \in WordChars THEN WordRuns(Tail(s), Append(cur, Head(s)))
    ELSE (IF cur = <<>> THEN {} ELSE {cur}) \cup WordRuns(Tail(s), <<>>)

\* the deny-set keywords that stand in sql as tokens of their own, in any case,
\* outside comments and string literals
DbKeywords(sql) == WordRuns(Upper(DbVisible(sql)), <<>>) \cap FORBIDDEN_KEYWORDS

\* the statements the database finds in sql
DbStatements(sql) == Statements(DbVisible(sql))

IsSelect(stmt) ==
    /\ StartsWith(Upper(stmt), <<"S","E","L","E","C","T">>)
    /\ (Len(stmt) = 6 \/ stmt[7] \notin WordChars)

\* sql is two SELECT statements separated by ';'
TwoSelects(sql) ==
    LET st == DbStatements(sql)
    IN  Len(st) = 2 /\ IsSelect(st[1]) /\ IsSelect(st[2])

\* C9: every SQL text that contains a keyword of the deny-set as a standalone
\* token is rejected by the validator, whatever the case of the keyword and
\* wherever comments are placed in the text.
C9_StandaloneKeywordRejected ==
    (vverdict # None /\ DbKeywords(vsql.text) # {}) => vverdict # "ok"

\* C10: every text made of two SELECT statements separated by ';' is rejected by
\* the validator.
C10_TwoSelectsRejected ==
    (vverdict # None /\ TwoSelects(vsql.text)) => vverdict # "ok"

\* the comment-stripped, trimmed, upper-cased form of sql begins with lit
BeginsWith(sql, lit) ==
    LET form == Upper(Strip(StripBlockComments(StripLineComments(sql))))
    IN  Len(form) >= Len(lit) /\ SubSeq(form, 1, Len(lit)) = lit

\* C11: every SQL text whose comment-stripped, trimmed, upper-cased form does
\* not begin with SELECT or WITH is rejected by the validator.
C11_OnlySelectOrWith ==
    (/\ vverdict # None
     /\ ~BeginsWith(vsql.text, <<"S","E","L","E","C","T">>)
     /\ ~BeginsWith(vsql.text, <<"W","I","T","H">>))
    => vverdict # "ok"

\* a text that holds SELECT, but not at the start of its stripped form, which
\* is not empty and had a comment removed, was rejected
C11_Witness ==
    /\ vverdict = "BLOCKED: Only SELECT / WITH queries are allowed"
    /\ Contains(Upper(vsql.text), <<"S","E","L","E","C","T">>)
    /\ CleanedUpper(vsql.text) # <<>>
    /\ Len(Cleaned(vsql.text)) < Len(vsql.text)

\* the verdicts of the security checks of the validator (db.py:124-152)
SecurityVerdicts ==
    { "BLOCKED: Only SELECT / WITH queries are allowed",
      "BLOCKED: Forbidden keyword detected",
      "BLOCKED: Multiple SQL statements are not allowed",
      "BLOCKED: Potentially dangerous SQL pattern detected" }

\* sql, as the database reads it, names a protected table
DbReferencesProtected(sql) ==
    WordRuns(Upper(DbVisible(sql)), <<>>) \cap MAIN_TABLES # {}

\* sql, as the database reads it, selects '*': the keyword SELECT, then '*',
\* with or without blanks between them
DbSelectStar(sql) ==
    LET v == Upper(DbVisible(sql))
    IN  \E i \in 1..Len(v) :
            /\ WordBoundary(v, i)
            /\ HasAt(v, i, <<"S","E","L","E","C","T">>)
            /\ \E j \in (i + 6)..Len(v) :
                  /\ v[j] = "*"
                  /\ \A k \in (i + 6)..(j - 1) : v[k] \in Whitespace

\* sql has a WHERE keyword outside comments and string literals
DbHasWhere(sql) == <<"W","H","E","R","E">> \in WordRuns(Upper(DbVisible(sql)), <<>>)

\* sql has LIMIT followed by a literal integer outside comments and literals
DbHasLimit(sql) ==
    LET v == Upper(DbVisible(sql))
    IN  \E i \in 1..Len(v) :
            /\ WordBoundary(v, i)
            /\ HasAt(v, i, <<"L","I","M","I","T">>)
            /\ \E j \in (i + 6)..Len(v) :
                  /\ v[j] \in Digits
                  /\ \A k \in (i + 5)..(j - 1) : v[k] \in Whitespace

\* C12: for SQL text that references a protected table and passes the security
\* checks, the validator accepts exactly when the text has no SELECT *, has a
\* WHERE clause and has a LIMIT clause with a literal integer.
C12_ScopeChecksExact ==
    (/\ vverdict # None
     /\ vverdict \notin SecurityVerdicts
     /\ DbReferencesProtected(vsql.text))
    => (vverdict = "ok" <=>
           (~DbSelectStar(vsql.text) /\ DbHasWhere(vsql.text) /\ DbHasLimit(vsql.text)))

\* C13: SELECT * is never allowed: no SQL text containing SELECT * is accepted
\* by the validator, whichever table it reads.
C13_SelectStarNeverAccepted ==
    (vverdict # None /\ DbSelectStar(vsql.text)) => vverdict # "ok"

(***************************************************************************)
(* Order of the operations on a checked-out connection                     *)
(***************************************************************************)

\* the read-only setting comes first and the timeout second in a connection's log
SettingsIssued(log) ==
    /\ Len(log) >= 2
    /\ log[1] = "SET default_transaction_read_only = ON"
    /\ log[2] = "SET LOCAL statement_timeout"

\* C14: the request is registered under its identifier only on a connection
\* whose log of this execution already holds the read-only setting, the
\* timeout and the backend pid query, in this order; and the caller's SQL
\* runs (the step that leaves "running") only on a connection whose log
\* of this execution starts with the read-only setting and the timeout.
C14_SettingsBeforeSql ==
    [][\A r \in Reqs :
          /\ (pc[r] = "setup" /\ pc'[r] = "running")
                => /\ SettingsIssued(conn_log'[loc[r].conn])
                   /\ Len(conn_log'[loc[r].conn]) = 3
                   /\ conn_log'[loc[r].conn][3] = "SELECT pg_backend_pid()"
                   /\ active_queries'[loc[r].request_id] = loc[r].conn
          /\ (pc[r] = "running" /\ pc'[r] # "running")
                => SettingsIssued(conn_log[loc[r].conn])]_vars

\* an execution has sent the caller's SQL and returned its rows
C14_Witness ==
    \E r \in Reqs : pc[r] = "synthesizing" /\ loc[r].query_result # None /\ loc[r].attempt = 1

(***************************************************************************)
(* The value cancel_query returns                                          *)
(***************************************************************************)

\* C15: cancel_query goes on to send a signal only for an identifier that had
\* a registry entry, whose pid it holds and whose entry it has removed in the
\* same step, before the signal; without an entry it returns False at once
\* and sends nothing; after the signal it returns True only when the signal
\* was sent and accepted, and False (no exception) when sending failed.
C15_CancelQueryResult ==
    [][/\ (cpc = "idle" /\ cpc' = "signal")
            => /\ active_queries[cloc'.request_id] # NoConn
               /\ cloc'.backend_pid = active_queries[cloc'.request_id]
               /\ active_queries'[cloc'.request_id] = NoConn
               /\ interrupted' = interrupted
       /\ (cpc = "idle" /\ cpc' = "idle" /\ cloc' # cloc)
            => /\ ~ cloc'.result
               /\ cloc'.signal = "none"
               /\ interrupted' = interrupted
               /\ \A request_id \in Ids :
                     active_queries[request_id] # NoConn
                        => active_queries'[request_id] = active_queries[request_id]
       /\ (cpc # "idle" /\ cpc' = "idle")
            => /\ cloc'.result => cloc'.signal = "accepted"
               /\ cloc'.signal = "failed" => ~ cloc'.result
               /\ cloc'.signal # "none"
               /\ active_queries' = active_queries]_vars

\* a cancel_query whose signal could not be sent has returned False while the
\* query it was meant for is still running
C15_Witness ==
    /\ cpc = "idle"
    /\ cloc.signal = "failed"
    /\ ~ cloc.result
    /\ \E r \in Reqs : pc[r] = "running" /\ active_queries[loc[r].request_id] = NoConn

(***************************************************************************)
(* Every exit of query is a response                                       *)
(***************************************************************************)

\* C16: a request that has left the pipeline has a response with an answer
\* string, whatever was raised on its way; when the answer is the one of the
\* top-level handler (an unclassified failure) the response carries the text
\* of that failure in its error field, and when both executions failed it
\* carries the second error.
C16_AlwaysAResponse ==
    \A r \in Reqs :
        pc[r] = "done"
           => /\ resp[r] # NoResp
              /\ Len(resp[r].answer) >= 1
              /\ resp[r].answer[1] = "An error occurred processing your question"
                    => /\ resp[r].error # None
                       /\ resp[r].error = resp[r].answer[2]
              /\ loc[r].e2 # None => resp[r].error = loc[r].e2

\* the interpreter has raised and the request has returned the error answer
C16_Witness ==
    \E r \in Reqs :
        /\ pc[r] = "done"
        /\ resp[r].answer[1] = "An error occurred processing your question"
        /\ resp[r].error \in LlmErrors

(***************************************************************************)
(* The session history                                                     *)
(***************************************************************************)

\* the history stored for session s
StoredHistory(sess, ls, s) == IF sess[s] = NoList THEN <<>> ELSE ls[sess[s]]

C18_HistoryCapped ==
    \A s \in Sessions :
        Len(StoredHistory(sessions, lists, s)) <= 2 * MAX_HISTORY_TURNS

\* C19: _trim_history leaves of a history longer than 2 * MAX_HISTORY_TURNS
\* exactly its last 2 * MAX_HISTORY_TURNS entries, in their order, and leaves
\* a history that is not longer as it is.
C19_TrimKeepsMostRecent ==
    trimmed.done
       => LET cap == 2 * MAX_HISTORY_TURNS
              n == Len(thistory)
          IN  IF n > cap
              THEN /\ Len(trimmed.history) = cap
                   /\ \A i \in 1..cap : trimmed.history[i] = thistory[n - cap + i]
              ELSE trimmed.history = thistory

\* a history with more entries than the cap, not all alike, has been trimmed
C19_Witness ==
    /\ trimmed.done
    /\ Len(thistory) > 2 * MAX_HISTORY_TURNS + 1
    /\ thistory[1] # thistory[Len(thistory)]
    /\ trimmed.history # thistory

(***************************************************************************)
(* The response after a successful retry                                   *)
(***************************************************************************)

\* request r returns in this step after its retry execution succeeded
ReturnsAfterRetrySuccess(r) ==
    /\ pc[r] = "synthesizing"
    /\ loc[r].attempt = 2
    /\ pc'[r] = "done"

\* the response of r carries the SQL and the rows of the execution that
\* succeeded in r, and no error
CarriesCorrectedSql(r) ==
    /\ resp'[r].sql = loc[r].sql
    /\ resp'[r].data = loc[r].query_result
    /\ resp'[r].data = resp'[r].sql
    /\ resp'[r].error = None

C21_TwoFailuresResponse ==
    [][\A r \in Reqs :
          ( /\ pc[r] \in ExecPcs
            /\ loc[r].attempt = 2
            /\ ~ is_cancelled(loc[r].request_id)
            /\ pc'[r] = "done" )
             => /\ resp'[r].error \in ExecErrors
                /\ resp'[r].error = loc'[r].e2
                /\ resp'[r].answer = <<"I tried two queries but both failed. Last error",
                                       resp'[r].error>>
                /\ resp'[r].data = None
                /\ calls'[r].synthesize_answer = 0]_vars

\* both executions of a request have failed, the second one in the database,
\* and nothing was cancelled
C21_Witness ==
    \E r \in Reqs :
        /\ pc[r] = "done"
        /\ loc[r].e2 \in DbErrors
        /\ resp[r].error = loc[r].e2
        /\ calls[r].execute_query = 2
        /\ cancelled_requests = {}

(***************************************************************************)
(* Concurrent requests on the shared stores                                *)
(***************************************************************************)

\* request r is running in the state given by its program counter
Live(p, r) == p[r] \notin {"idle", "done"}

LongCallPcs == LlmPcs \cup {"running"}

\* C23: whenever a request is inside the interpreter call or the database
\* execution, a cancel request for its identifier can be processed at once,
\* without waiting for that call or for the turn to finish.
C23_CancelNotBlocked ==
    \A r \in Reqs :
        pc[r] \in LongCallPcs => ENABLED LoopCancel(loc[r].request_id)

(***************************************************************************)
(* The connection pool                                                     *)
(***************************************************************************)

\* the requests whose execute_query call holds a connection
Holders == {r \in Reqs : pc[r] \in {"setup", "running"}}

\* C24: the connections checked out are exactly those held by the
\* execute_query calls between their checkout and their return and by a
\* cancel_query call between its checkout and its return, one connection per
\* call; so every call that has ended, however it ended, has returned its
\* connection, with no call in progress none is checked out, and there are
\* never more than max_conn.
C24_ConnectionsReturned ==
    /\ Cardinality(pool_used) <= max_conn
    /\ pool_used = {loc[r].conn : r \in Holders}
                       \cup (IF cpc = "sending" THEN {cloc.conn} ELSE {})
    /\ NoConn \notin pool_used
    /\ \A r \in Holders :
          /\ \A q \in Holders \ {r} : loc[q].conn # loc[r].conn
          /\ cpc = "sending" => cloc.conn # loc[r].conn

\* an execute_query call has ended in a database error and a cancel_query call
\* has sent its signal, and no connection is checked out
C24_Witness ==
    /\ pool_used = {}
    /\ cpc = "idle"
    /\ cloc.signal = "accepted"
    /\ \E r \in Reqs : pc[r] = "done" /\ loc[r].e2 \in DbErrors

(***************************************************************************)
(* The rows execute_query returns                                          *)
(***************************************************************************)

\* C25: with n the number of rows the query yields (whatever its LIMIT) and
\* M = MAX_QUERY_ROWS, the result holds min(n, M) rows, they are the first
\* rows the query yields, in order (dates as ISO text), row_count is their
\* number, and truncated is true exactly when n > M.
C25_RowsBounded ==
    fetched.done
       => LET n == IF fetched.limit < Len(cur_rows) THEN fetched.limit ELSE Len(cur_rows)
              M == MAX_QUERY_ROWS
          IN  /\ Len(fetched.rows) = (IF n < M THEN n ELSE M)
              /\ \A i \in 1..Len(fetched.rows) :
                    \/ fetched.rows[i] = cur_rows[i]
                    \/ /\ cur_rows[i] = <<"date(2024-01-01)">>
                       /\ fetched.rows[i] = <<"2024-01-01">>
              /\ fetched.row_count = Len(fetched.rows)
              /\ fetched.truncated <=> n > M

\* a query whose LIMIT is above the maximum has yielded more rows than the
\* maximum and its result was cut
C25_Witness ==
    /\ fetched.done
    /\ fetched.limit > MAX_QUERY_ROWS + 1
    /\ Len(cur_rows) > MAX_QUERY_ROWS + 1
    /\ fetched.truncated
    /\ \E i \in 1..Len(fetched.rows) : fetched.rows[i] # cur_rows[i]

(***************************************************************************)
(* An interpreter response that cannot be parsed                           *)
(***************************************************************************)

\* the parse failure of an interpreter call of r comes up in this step
ParseFailureSeen(r) ==
    \/ resp'[r].error \in LlmErrors /\ resp[r].error \notin LlmErrors
    \/ loc'[r].error_msg \in LlmErrors /\ loc[r].error_msg \notin LlmErrors
    \/ loc'[r].exc \in LlmErrors /\ loc[r].exc \notin LlmErrors

\* C26: the step in which the response of an interpreter call (first
\* interpretation, retry interpretation, synthesis) fails to parse ends the
\* turn with the error answer, error set to the parse failure, and starts no
\* interpreter call and no database call; a turn that has ended makes no call.
C26_ParseFailureNotRetried ==
    [][\A r \in Reqs :
          /\ ParseFailureSeen(r)
                => /\ pc[r] \in LlmPcs
                   /\ pc'[r] = "done"
                   /\ calls'[r] = calls[r]
                   /\ resp'[r].error \in LlmErrors
                   /\ resp'[r].answer = <<"An error occurred processing your question",
                                          resp'[r].error>>
                   /\ resp'[r].sql = None
                   /\ resp'[r].data = None
          /\ pc[r] = "done" => (pc'[r] = "done" /\ calls'[r] = calls[r])]_vars

\* the retry interpretation of a request has failed to parse
C26_Witness ==
    \E r \in Reqs :
        /\ pc[r] = "done"
        /\ resp[r].error \in LlmErrors
        /\ calls[r] = [generate_sql |-> 2, execute_query |-> 1, synthesize_answer |-> 0]

(***************************************************************************)
(* A turn that needs no data                                               *)
(***************************************************************************)

DirectAnswers ==
    { <<"direct answer">>, <<"I couldn't generate a query for that question.">> }

\* C27: when the first interpretation needs no data or gives no SQL (and the
\* checkpoint after it finds no cancellation), the step that receives it ends
\* the turn with the direct or the fallback answer: the answer is appended to the request's
\* history as an assistant turn, execute_query was never called for the
\* request (no validation, no connection, no registry entry made), and the
\* response has no sql, no data and no error.
C27_DirectAnswerEndsTurn ==
    [][\A r \in Reqs :
          (pc[r] = "interpreting" /\ resp'[r].answer \in DirectAnswers)
             => /\ pc'[r] = "done"
                /\ \A s \in Sessions :
                      sessions[s] = loc[r].history
                         => StoredHistory(sessions', lists', s)
                               = Append(StoredHistory(sessions, lists, s),
                                        Turn("assistant", resp'[r].answer))
                /\ calls'[r].execute_query = 0
                /\ calls'[r].synthesize_answer = 0
                /\ active_queries' = active_queries
                /\ pool_used' = pool_used
                /\ conn_log' = conn_log
                /\ resp'[r].sql = None
                /\ resp'[r].data = None
                /\ resp'[r].error = None]_vars

\* a request has ended with the fallback answer for an interpretation
\* without SQL
C27_Witness ==
    \E r \in Reqs :
        /\ pc[r] = "done"
        /\ resp[r].answer = <<"I couldn't generate a query for that question.">>
        /\ calls[r] = [generate_sql |-> 1, execute_query |-> 0, synthesize_answer |-> 0]

(***************************************************************************)
(* The backend a cancel signal reaches                                     *)
(***************************************************************************)

DbSingleReadStatement(sql) ==
    LET st == DbStatements(sql)
    IN  /\ Len(st) = 1
        /\ \/ StartsWith(Upper(Strip(st[1])), <<"S","E","L","E","C","T">>)
           \/ StartsWith(Upper(Strip(st[1])), <<"W","I","T","H">>)
        /\ DbKeywords(sql) = {}

\* C29: every SQL text the validator accepts, and execute_query therefore
\* sends, is as the database lexes it a single SELECT/WITH statement with no
\* deny-set keyword outside comments.
C29_AcceptedTextIsWhatWasChecked ==
    vverdict = "ok" => DbSingleReadStatement(vsql.text)

(***************************************************************************)
(* Flags without a request                                                 *)
(***************************************************************************)

\* C30: in every reachable state each identifier in the cancellation set is
\* the identifier of a request whose pipeline is running.
C30_FlagsOnlyOfLiveRequests ==
    \A request_id \in cancelled_requests :
        \E r \in Reqs : Live(pc, r) /\ loc[r].request_id = request_id

(***************************************************************************)
(* The history an interpreter call is given                                *)
(***************************************************************************)

\* h begins with a user turn, alternates between user and assistant, and ends
\* with a user turn
WellFormedDialogue(h) ==
    /\ h # <<>>
    /\ h[1].role = "user"
    /\ \A i \in 1..(Len(h) - 1) : h[i].role # h[i + 1].role
    /\ h[Len(h)].role = "user"

\* C31: with requests processed one after another, whenever a request is in
\* an interpreter call (first interpretation, retry interpretation,
\* synthesis) the history it passed begins with a user turn, alternates
\* strictly between the roles and ends with a user turn.
C31_InterpreterHistoryWellFormed ==
    \A r \in Reqs :
        pc[r] \in LlmPcs => WellFormedDialogue(lists[loc[r].history])

(***************************************************************************)
(* One request's exit and the other live requests                          *)
(***************************************************************************)

PassesCheckpoint(r) ==
    \/ pc[r] = "idle" /\ pc'[r] # "idle"
    \/ pc[r] = "interpreting" /\ pc'[r] # "interpreting" /\ resp'[r].error \notin LlmErrors
    \/ pc[r] \in ExecPcs /\ pc'[r] \notin ExecPcs /\ loc'[r].e2 = None

\* C33: with interpreter and database calls that end, from some point on every
\* request that has started is in its terminal state, with a response (a
\* request never leaves that state and never returns to idle, so each started
\* request reaches it); no request makes more
\* than three interpreter calls or more than two executions; and a request
\* that passes a checkpoint while its flag is set ends there with the
\* cancelled answer.
C33_EveryRunTerminates ==
    /\ <>[](\A r \in Reqs : pc[r] = "idle" \/ (pc[r] = "done" /\ Len(resp[r].answer) >= 1))
    /\ [](\A r \in Reqs :
             /\ calls[r].generate_sql + calls[r].synthesize_answer <= 3
             /\ calls[r].execute_query <= 2)
    /\ [][\A r \in Reqs :
             (PassesCheckpoint(r) /\ loc'[r].request_id \in cancelled_requests)
                => (pc'[r] = "done" /\ resp'[r].answer = CancelledAnswer)]_vars

\* a request has ended after three interpreter calls and two executions, and
\* another one has ended cancelled
C33_Witness ==
    \E r \in Reqs : \E q \in Reqs \ {r} :
        /\ pc[r] = "done"
        /\ calls[r] = [generate_sql |-> 2, execute_query |-> 2, synthesize_answer |-> 1]
        /\ pc[q] = "done"
        /\ resp[q].answer = CancelledAnswer
        /\ calls[q].generate_sql >= 1

====
